---------------------------- MODULE Spec2Model ----------------------------
(***************************************************************************)
(* Model of the job filter of the Suyog+ job finder (src/app.py):          *)
(* map_group, filter_jobs and the search action that calls it.             *)
(*                                                                         *)
(* Text is a sequence of one-character strings, so that lower(), upper(),  *)
(* strip(), split() and substring tests are computed character by          *)
(* character as Python and pandas compute them.  A table (DataFrame) is a  *)
(* record of its column names, its index labels and its rows; a missing    *)
(* value (NaN) is the cell NaN.                                            *)
(***************************************************************************)
EXTENDS Integers, Sequences, FiniteSets, TLC

VARIABLES
    df,             \* the loaded table handed to filter_jobs
    profile,        \* the keyword arguments of filter_jobs
    pc,             \* position inside filter_jobs
    df_filtered,    \* the local df_filtered
    cand,           \* df_filtered as it was when the last stage started
    mask,           \* the boolean mask computed by the last stage
    ran,            \* whether the last stage's "if" was entered
    allowed_groups  \* the local allowed_groups

vars == <<df, profile, pc, df_filtered, cand, mask, ran, allowed_groups>>

(***************************************************************************)
(* Bound of the model: the number of rows of a table.                      *)
(***************************************************************************)
MaxRows == 2

(***************************************************************************)
(* Characters and Python's str methods.                                    *)
(***************************************************************************)
UpperLetters ==
    <<"A", "B", "C", "D", "E", "F", "G", "H", "I", "J", "K", "L", "M",
      "N", "O", "P", "Q", "R", "S", "T", "U", "V", "W", "X", "Y", "Z">>

LowerLetters ==
    <<"a", "b", "c", "d", "e", "f", "g", "h", "i", "j", "k", "l", "m",
      "n", "o", "p", "q", "r", "s", "t", "u", "v", "w", "x", "y", "z">>

UpperSet == {UpperLetters[i] : i \in 1..26}

LowerSet == {LowerLetters[i] : i \in 1..26}

ToLower == [c \in UpperSet |-> LowerLetters[CHOOSE i \in 1..26 : UpperLetters[i] = c]]

ToUpper == [c \in LowerSet |-> UpperLetters[CHOOSE i \in 1..26 : LowerLetters[i] = c]]

\* str.lower()
lower(s) ==
    [i \in 1..Len(s) |-> IF s[i] \in UpperSet THEN ToLower[s[i]] ELSE s[i]]

\* str.upper()
upper(s) ==
    [i \in 1..Len(s) |-> IF s[i] \in LowerSet THEN ToUpper[s[i]] ELSE s[i]]

RECURSIVE lstrip(_)
lstrip(s) ==
    IF s # <<>> /\ Head(s) = " " THEN lstrip(Tail(s)) ELSE s

RECURSIVE rstrip(_)
rstrip(s) ==
    IF s # <<>> /\ s[Len(s)] = " " THEN rstrip(SubSeq(s, 1, Len(s) - 1)) ELSE s

\* str.strip()
strip(s) ==
    rstrip(lstrip(s))

\* Python's "needle in hay" and pandas' str.contains(needle, regex=False)
contains(hay, needle) ==
    \E i \in 0..(Len(hay) - Len(needle)) :
        \A k \in 1..Len(needle) : hay[i + k] = needle[k]

RECURSIVE UntilSpace(_)
UntilSpace(s) ==
    IF s = <<>> \/ Head(s) = " " THEN <<>> ELSE <<Head(s)>> \o UntilSpace(Tail(s))

\* a.split(): whether the list of tokens is empty, and its element [0]
HasToken(s) ==
    lstrip(s) # <<>>

FirstToken(s) ==
    UntilSpace(lstrip(s))

\* str.replace(r'[^A-Z ]', '', regex=True)
RemoveNonUpper(s) ==
    SelectSeq(s, LAMBDA c : c \in UpperSet \/ c = " ")

\* Python truthiness of a str, a list or None (None is modelled as the empty text)
Truthy(x) ==
    x # <<>>

None == <<>>

\* a missing value of the table, and astype(str)
NaN == <<"NaN">>

(***************************************************************************)
(* The text literals of the program.                                       *)
(***************************************************************************)
kw_disabilities ==
    <<"d", "i", "s", "a", "b", "i", "l", "i", "t", "i", "e", "s">>

kw_subcategory ==
    <<"s", "u", "b", "c", "a", "t", "e", "g", "o", "r", "y">>

kw_group ==
    <<"g", "r", "o", "u", "p">>

kw_department ==
    <<"d", "e", "p", "a", "r", "t", "m", "e", "n", "t">>

kw_functional_requirements ==
    <<"f", "u", "n", "c", "t", "i", "o", "n", "a", "l", "_", "r", "e", "q", "u", "i", "r", "e", "m", "e", "n", "t", "s">>

kw_functional_norm ==
    <<"f", "u", "n", "c", "t", "i", "o", "n", "a", "l", "_", "n", "o", "r", "m">>

q_graduate ==
    <<"g", "r", "a", "d", "u", "a", "t", "e">>

q_post_graduate ==
    <<"p", "o", "s", "t", " ", "g", "r", "a", "d", "u", "a", "t", "e">>

q_doctorate ==
    <<"d", "o", "c", "t", "o", "r", "a", "t", "e">>

q_12th_standard ==
    <<"1", "2", "t", "h", " ", "s", "t", "a", "n", "d", "a", "r", "d">>

q_10th_standard ==
    <<"1", "0", "t", "h", " ", "s", "t", "a", "n", "d", "a", "r", "d">>

Group_A ==
    <<"G", "r", "o", "u", "p", " ", "A">>

Group_B ==
    <<"G", "r", "o", "u", "p", " ", "B">>

Group_C ==
    <<"G", "r", "o", "u", "p", " ", "C">>

Group_D ==
    <<"G", "r", "o", "u", "p", " ", "D">>

nan_text ==
    <<"n", "a", "n">>

Visual_Impairment ==
    <<"V", "i", "s", "u", "a", "l", " ", "I", "m", "p", "a", "i", "r", "m", "e", "n", "t">>

Intellectual_and_Developmental_Disabilities ==
    <<"I", "n", "t", "e", "l", "l", "e", "c", "t", "u", "a", "l", " ", "a", "n", "d", " ", "D", "e", "v", "e", "l", "o", "p", "m", "e", "n", "t", "a", "l", " ", "D", "i", "s", "a", "b", "i", "l", "i", "t", "i", "e", "s">>

Intellectual_Disability_ID ==
    <<"I", "n", "t", "e", "l", "l", "e", "c", "t", "u", "a", "l", " ", "D", "i", "s", "a", "b", "i", "l", "i", "t", "y", " ", "(", "I", "D", ")">>

Q_10th_Standard ==
    <<"1", "0", "t", "h", " ", "S", "t", "a", "n", "d", "a", "r", "d">>

Q_12th_Standard ==
    <<"1", "2", "t", "h", " ", "S", "t", "a", "n", "d", "a", "r", "d">>

Q_Certificate ==
    <<"C", "e", "r", "t", "i", "f", "i", "c", "a", "t", "e">>

Q_Diploma ==
    <<"D", "i", "p", "l", "o", "m", "a">>

Q_Graduate ==
    <<"G", "r", "a", "d", "u", "a", "t", "e">>

Q_Post_Graduate ==
    <<"P", "o", "s", "t", " ", "G", "r", "a", "d", "u", "a", "t", "e">>

Q_Doctorate ==
    <<"D", "o", "c", "t", "o", "r", "a", "t", "e">>

S_Sitting ==
    <<"S", " ", "S", "i", "t", "t", "i", "n", "g">>

BN_Bending ==
    <<"B", "N", " ", "B", "e", "n", "d", "i", "n", "g">>

RW_Reading_Writing ==
    <<"R", "W", " ", "R", "e", "a", "d", "i", "n", "g", " ", "&", " ", "W", "r", "i", "t", "i", "n", "g">>

astype_str(cell) ==
    IF cell = NaN THEN nan_text ELSE cell

(***************************************************************************)
(* map_group                                                               *)
(***************************************************************************)
map_group_12th_only_D(qualification) ==
    LET q == lower(strip(qualification)) IN
    IF q \in {q_graduate, q_post_graduate, q_doctorate}
    THEN <<Group_A, Group_B, Group_C, Group_D>>
    ELSE <<Group_D>>

map_group(qualification) ==
    LET q == lower(strip(qualification)) IN
    IF q \in {q_graduate, q_post_graduate, q_doctorate}
    THEN <<Group_A, Group_B, Group_C, Group_D>>
    ELSE IF q = q_12th_standard
    THEN <<Group_C, Group_D>>
    ELSE IF q = q_10th_standard
    THEN <<Group_D>>
    ELSE <<Group_D>>

(***************************************************************************)
(* pandas operations on a table [columns, index, data]: data[r][c] is the  *)
(* cell of row r in column c, index[r] the label of row r.                 *)
(***************************************************************************)
\* a guard that takes every column to exist
has_column_always(t, name) ==
    TRUE

\* "name" in df.columns
has_column(t, name) ==
    \E c \in 1..Len(t.columns) : t.columns[c] = name

\* df[name] raises KeyError when the column does not exist
KeyError(t, name) ==
    \A c \in 1..Len(t.columns) : t.columns[c] # name

column_index(t, name) ==
    CHOOSE c \in 1..Len(t.columns) : t.columns[c] = name

\* mask.all() in place of mask.any()
any_as_all(m) ==
    \A r \in 1..Len(m) : m[r]

\* mask.any()
any(m) ==
    \E r \in 1..Len(m) : m[r]

RECURSIVE TruePositions(_, _)
TruePositions(m, n) ==
    IF n = 0 THEN <<>>
    ELSE IF m[n] THEN Append(TruePositions(m, n - 1), n)
    ELSE TruePositions(m, n - 1)

\* df[mask]: the rows whose mask entry is True, with their index labels
boolean_index(t, m) ==
    LET p == TruePositions(m, Len(m)) IN
    [t EXCEPT !.index = [k \in 1..Len(p) |-> t.index[p[k]]],
              !.data = [k \in 1..Len(p) |-> t.data[p[k]]]]

\* df[name] = values: replaces the column when it exists, appends it otherwise
set_column(t, name, values) ==
    IF ~KeyError(t, name)
    THEN [t EXCEPT !.data = [r \in 1..Len(t.data) |->
                                [t.data[r] EXCEPT ![column_index(t, name)] = values[r]]]]
    ELSE [t EXCEPT !.columns = Append(t.columns, name),
                   !.data = [r \in 1..Len(t.data) |-> Append(t.data[r], values[r])]]

\* df.reset_index(drop=True)
reset_index(t) ==
    [t EXCEPT !.index = [r \in 1..Len(t.data) |-> r - 1]]

\* df.empty
empty(t) ==
    Len(t.data) = 0 \/ Len(t.columns) = 0

(***************************************************************************)
(* filter_jobs: the mask of each stage, the "if" that guards each stage,   *)
(* and the stage itself.                                                   *)
(***************************************************************************)
\* "mask =" in place of "mask |=": only the last disability column counts
disability_mask_last_column(t, disability) ==
    LET d == lower(strip(disability))
        cols == {c \in 1..Len(t.columns) : contains(lower(t.columns[c]), kw_disabilities)} IN
    [r \in 1..Len(t.data) |->
        \E c \in cols :
            /\ \A c2 \in cols : c2 <= c
            /\ contains(lower(astype_str(t.data[r][c])), d)]

\* lines 75-79: any column whose lower-cased name contains "disabilities"
disability_mask(t, disability) ==
    LET d == lower(strip(disability)) IN
    [r \in 1..Len(t.data) |->
        \E c \in 1..Len(t.columns) :
            /\ contains(lower(t.columns[c]), kw_disabilities)
            /\ contains(lower(astype_str(t.data[r][c])), d)]

\* lines 84-88
subcategory_mask(t, subcategory) ==
    LET sub_lower == lower(strip(subcategory)) IN
    [r \in 1..Len(t.data) |->
        \E c \in 1..Len(t.columns) :
            /\ contains(lower(t.columns[c]), kw_subcategory)
            /\ contains(lower(astype_str(t.data[r][c])), sub_lower)]

\* isin(allowed): the text is one of the elements of the list
isin(s, allowed) ==
    \E k \in 1..Len(allowed) : allowed[k] = s

\* the group text compared without .str.strip()
group_mask_no_strip(t, allowed) ==
    LET g == column_index(t, kw_group) IN
    [r \in 1..Len(t.data) |-> isin(astype_str(t.data[r][g]), allowed)]

\* line 94
group_mask(t, allowed) ==
    LET g == column_index(t, kw_group) IN
    [r \in 1..Len(t.data) |-> isin(strip(astype_str(t.data[r][g])), allowed)]

\* the department text compared without .str.lower()
department_mask_case_sensitive(t, department) ==
    LET dep_lower == lower(strip(department))
        c == column_index(t, kw_department) IN
    [r \in 1..Len(t.data) |-> contains(astype_str(t.data[r][c]), dep_lower)]

\* lines 99-100
department_mask(t, department) ==
    LET dep_lower == lower(strip(department))
        c == column_index(t, kw_department) IN
    [r \in 1..Len(t.data) |-> contains(lower(astype_str(t.data[r][c])), dep_lower)]

\* line 107
functional_norm(t) ==
    LET c == column_index(t, kw_functional_requirements) IN
    [r \in 1..Len(t.data) |-> RemoveNonUpper(upper(astype_str(t.data[r][c])))]

\* line 108
selected_norm(activities) ==
    [k \in 1..Len(activities) |-> upper(FirstToken(activities[k]))]

\* all() in place of any(): every selected code must occur
activity_mask_all(t, activities) ==
    LET c == column_index(t, kw_functional_norm)
        codes == selected_norm(activities) IN
    [r \in 1..Len(t.data) |->
        \A k \in 1..Len(codes) : contains(t.data[r][c], codes[k])]

\* line 109, over the functional_norm column
activity_mask(t, activities) ==
    LET c == column_index(t, kw_functional_norm)
        codes == selected_norm(activities) IN
    [r \in 1..Len(t.data) |->
        \E k \in 1..Len(codes) : contains(t.data[r][c], codes[k])]

\* the filter applied without the "if mask.any()" guard
keep_always(t, m) ==
    boolean_index(t, m)

\* "if mask.any(): df_filtered = df_filtered[mask]"
keep_if_any(t, m) ==
    IF any(m) THEN boolean_index(t, m) ELSE t

\* line 92
allowed_for(qualification) ==
    IF Truthy(qualification) THEN map_group(qualification) ELSE <<>>

\* the conditions of the five "if" statements (lines 74, 83, 93, 98, 104)
disability_enabled(p) ==
    Truthy(p.disability)

subcategory_enabled(p) ==
    Truthy(p.subcategory)

group_enabled(t, p) ==
    Truthy(allowed_for(p.qualification)) /\ has_column(t, kw_group)

department_enabled(t, p) ==
    Truthy(p.department) /\ has_column(t, kw_department)

activities_enabled(t, p) ==
    Truthy(p.activities) /\ has_column(t, kw_functional_requirements)

\* the exceptions a stage can end in: a column read that does not exist,
\* or a.split()[0] on a label with no token
group_raises(t, p) ==
    group_enabled(t, p) /\ KeyError(t, kw_group)

department_raises(t, p) ==
    department_enabled(t, p) /\ KeyError(t, kw_department)

activities_raises(t, p) ==
    activities_enabled(t, p)
    /\ \/ KeyError(t, kw_functional_requirements)
       \/ \E k \in 1..Len(p.activities) : ~HasToken(p.activities[k])

\* lines 74-81
stage_disability(t, p) ==
    IF disability_enabled(p)
    THEN keep_if_any(t, disability_mask(t, p.disability))
    ELSE t

\* lines 83-90
stage_subcategory(t, p) ==
    IF subcategory_enabled(p)
    THEN keep_if_any(t, subcategory_mask(t, p.subcategory))
    ELSE t

\* lines 92-96
stage_group(t, p) ==
    IF group_enabled(t, p) /\ ~group_raises(t, p)
    THEN keep_if_any(t, group_mask(t, allowed_for(p.qualification)))
    ELSE t

\* lines 98-102
stage_department(t, p) ==
    IF department_enabled(t, p) /\ ~department_raises(t, p)
    THEN keep_if_any(t, department_mask(t, p.department))
    ELSE t

\* lines 104-111
with_functional_norm(t) ==
    set_column(t, kw_functional_norm, functional_norm(t))

stage_activities(t, p) ==
    IF activities_enabled(t, p) /\ ~activities_raises(t, p)
    THEN LET t2 == with_functional_norm(t) IN
         keep_if_any(t2, activity_mask(t2, p.activities))
    ELSE t

\* lines 71-113, when no stage raises
filter_jobs(t, p) ==
    reset_index(
        stage_activities(
            stage_department(
                stage_group(
                    stage_subcategory(
                        stage_disability(t, p), p), p), p), p))

(***************************************************************************)
(* Column names and cell values of the job records the model draws from.   *)
(***************************************************************************)
col_designation ==
    <<"d", "e", "s", "i", "g", "n", "a", "t", "i", "o", "n">>

col_category_of_disabilities_1 ==
    <<"c", "a", "t", "e", "g", "o", "r", "y", "_", "o", "f", "_", "d", "i", "s", "a", "b", "i", "l", "i", "t", "i", "e", "s", "_", "1">>

col_category_of_disabilities_2 ==
    <<"c", "a", "t", "e", "g", "o", "r", "y", "_", "o", "f", "_", "d", "i", "s", "a", "b", "i", "l", "i", "t", "i", "e", "s", "_", "2">>

col_Disability_Type ==
    <<"D", "i", "s", "a", "b", "i", "l", "i", "t", "y", "_", "T", "y", "p", "e">>

v_Teacher ==
    <<"T", "e", "a", "c", "h", "e", "r">>

v_Clerk ==
    <<"C", "l", "e", "r", "k">>

v_Helper ==
    <<"H", "e", "l", "p", "e", "r">>

v_Officer ==
    <<"O", "f", "f", "i", "c", "e", "r">>

v_Attendant ==
    <<"A", "t", "t", "e", "n", "d", "a", "n", "t">>

v_Hearing_Impairment ==
    <<"H", "e", "a", "r", "i", "n", "g", " ", "I", "m", "p", "a", "i", "r", "m", "e", "n", "t">>

v_visual_impairment_lc ==
    <<"v", "i", "s", "u", "a", "l", " ", "i", "m", "p", "a", "i", "r", "m", "e", "n", "t">>

v_intellectual_disability_lc ==
    <<"i", "n", "t", "e", "l", "l", "e", "c", "t", "u", "a", "l", " ", "d", "i", "s", "a", "b", "i", "l", "i", "t", "y", " ", "(", "i", "d", ")">>

v_group_d_lc ==
    <<"g", "r", "o", "u", "p", " ", "d">>

v_Group_D_padded ==
    <<" ", "G", "r", "o", "u", "p", " ", "D", " ">>

v_C_Level_3 ==
    <<"C", " ", "(", "L", "e", "v", "e", "l", " ", "3", ")">>

v_C ==
    <<"C">>

v_Group ==
    <<"G", "r", "o", "u", "p">>

v_Higher_Education_Department ==
    <<"H", "i", "g", "h", "e", "r", " ", "E", "d", "u", "c", "a", "t", "i", "o", "n", " ", "D", "e", "p", "a", "r", "t", "m", "e", "n", "t">>

v_Administrative ==
    <<"A", "d", "m", "i", "n", "i", "s", "t", "r", "a", "t", "i", "v", "e">>

v_Education ==
    <<"E", "d", "u", "c", "a", "t", "i", "o", "n">>

v_education_lc ==
    <<"e", "d", "u", "c", "a", "t", "i", "o", "n">>

v_S_Sitting_RW ==
    <<"S", " ", "S", "i", "t", "t", "i", "n", "g", ",", " ", "R", "W", " ", "R", "e", "a", "d", "i", "n", "g", " ", "&", " ", "W", "r", "i", "t", "i", "n", "g">>

v_W_Walking ==
    <<"W", " ", "W", "a", "l", "k", "i", "n", "g">>

v_rw_dotted ==
    <<"r", ".", "w", ".", " ", "(", "r", "e", "a", "d", "i", "n", "g", ")">>

v_PhD ==
    <<"P", "h", "D">>

(***************************************************************************)
(* The tables and profiles the search is run on.  A table has one of two   *)
(* sets of columns and at most MaxRows rows taken from five job records.    *)
(***************************************************************************)
JobRecords ==
    { [des |-> v_Teacher, dis1 |-> Visual_Impairment, dis2 |-> NaN, sub |-> NaN,
       grp |-> Group_B, grp2 |-> v_C,
       dep |-> v_Higher_Education_Department, fr |-> v_S_Sitting_RW],
      [des |-> v_Clerk, dis1 |-> v_Hearing_Impairment, dis2 |-> v_visual_impairment_lc,
       sub |-> NaN, grp |-> v_group_d_lc, grp2 |-> v_Group,
       dep |-> v_Administrative, fr |-> v_W_Walking],
      [des |-> v_Helper, dis1 |-> Intellectual_and_Developmental_Disabilities,
       dis2 |-> NaN, sub |-> v_intellectual_disability_lc,
       grp |-> v_Group_D_padded, grp2 |-> Group_A,
       dep |-> v_Education, fr |-> BN_Bending],
      [des |-> v_Officer, dis1 |-> v_Hearing_Impairment, dis2 |-> NaN, sub |-> NaN,
       grp |-> v_C_Level_3, grp2 |-> NaN,
       dep |-> v_Administrative, fr |-> NaN],
      [des |-> v_Attendant, dis1 |-> NaN, dis2 |-> NaN, sub |-> NaN,
       grp |-> Group_C, grp2 |-> Group_D,
       dep |-> NaN, fr |-> v_rw_dotted] }

FullColumns ==
    <<col_designation, col_category_of_disabilities_1, col_category_of_disabilities_2,
      kw_subcategory, kw_group, kw_department, kw_functional_requirements>>

FullRow(j) ==
    <<j.des, j.dis1, j.dis2, j.sub, j.grp, j.dep, j.fr>>

ShortColumns ==
    <<col_designation, col_Disability_Type, kw_group>>

ShortRow(j) ==
    <<j.des, j.dis1, j.grp2>>

RowLists ==
    UNION {[1..n -> JobRecords] : n \in 0..MaxRows}

Tables ==
    {[columns |-> FullColumns,
      index |-> [r \in 1..Len(js) |-> r - 1],
      data |-> [r \in 1..Len(js) |-> FullRow(js[r])]] : js \in RowLists}
    \cup
    {[columns |-> ShortColumns,
      index |-> [r \in 1..Len(js) |-> r - 1],
      data |-> [r \in 1..Len(js) |-> ShortRow(js[r])]] : js \in RowLists}

Profiles ==
    {[disability |-> ds[1], subcategory |-> ds[2], qualification |-> q,
      department |-> dep, activities |-> acts] :
        ds \in {<<None, None>>, <<Visual_Impairment, None>>,
                <<Intellectual_and_Developmental_Disabilities, Intellectual_Disability_ID>>},
        q \in {None, Q_Graduate, Q_12th_Standard, Q_10th_Standard},
        dep \in {None, v_education_lc, v_Administrative},
        acts \in {<<>>, <<RW_Reading_Writing, BN_Bending>>, <<S_Sitting>>}}

NoMask == <<>>

Init ==
    /\ df \in Tables
    /\ profile \in Profiles
    /\ pc = "disability"
    /\ df_filtered = df
    /\ cand = df
    /\ mask = NoMask
    /\ ran = FALSE
    /\ allowed_groups = <<>>

(***************************************************************************)
(* One action per stage of filter_jobs.                                    *)
(***************************************************************************)
Disability ==
    /\ pc = "disability"
    /\ cand' = df_filtered
    /\ ran' = disability_enabled(profile)
    /\ mask' = IF ran' THEN disability_mask(df_filtered, profile.disability) ELSE NoMask
    /\ df_filtered' = stage_disability(df_filtered, profile)
    /\ pc' = "subcategory"
    /\ UNCHANGED <<df, profile, allowed_groups>>

Subcategory ==
    /\ pc = "subcategory"
    /\ cand' = df_filtered
    /\ ran' = subcategory_enabled(profile)
    /\ mask' = IF ran' THEN subcategory_mask(df_filtered, profile.subcategory) ELSE NoMask
    /\ df_filtered' = stage_subcategory(df_filtered, profile)
    /\ pc' = "group"
    /\ UNCHANGED <<df, profile, allowed_groups>>

Group ==
    /\ pc = "group"
    /\ cand' = df_filtered
    /\ allowed_groups' = allowed_for(profile.qualification)
    /\ ran' = group_enabled(df_filtered, profile)
    /\ IF group_raises(df_filtered, profile)
       THEN /\ pc' = "error"
            /\ UNCHANGED <<mask, df_filtered>>
       ELSE /\ mask' = IF ran' THEN group_mask(df_filtered, allowed_groups') ELSE NoMask
            /\ df_filtered' = stage_group(df_filtered, profile)
            /\ pc' = "department"
    /\ UNCHANGED <<df, profile>>

\* the department stage reading the loaded table df in place of df_filtered
DepartmentOnLoadedTable ==
    /\ pc = "department"
    /\ cand' = df_filtered
    /\ ran' = department_enabled(df, profile)
    /\ mask' = IF ran' THEN department_mask(df, profile.department) ELSE NoMask
    /\ df_filtered' = stage_department(df, profile)
    /\ pc' = "activities"
    /\ UNCHANGED <<df, profile, allowed_groups>>

Department ==
    /\ pc = "department"
    /\ cand' = df_filtered
    /\ ran' = department_enabled(df_filtered, profile)
    /\ IF department_raises(df_filtered, profile)
       THEN /\ pc' = "error"
            /\ UNCHANGED <<mask, df_filtered>>
       ELSE /\ mask' = IF ran' THEN department_mask(df_filtered, profile.department)
                       ELSE NoMask
            /\ df_filtered' = stage_department(df_filtered, profile)
            /\ pc' = "activities"
    /\ UNCHANGED <<df, profile, allowed_groups>>

Activities ==
    /\ pc = "activities"
    /\ cand' = df_filtered
    /\ ran' = activities_enabled(df_filtered, profile)
    /\ IF activities_raises(df_filtered, profile)
       THEN /\ pc' = "error"
            /\ UNCHANGED <<mask, df_filtered>>
       ELSE /\ mask' = IF ran'
                       THEN activity_mask(with_functional_norm(df_filtered),
                                          profile.activities)
                       ELSE NoMask
            /\ df_filtered' = stage_activities(df_filtered, profile)
            /\ pc' = "return"
    /\ UNCHANGED <<df, profile, allowed_groups>>

\* line 113
Return ==
    /\ pc = "return"
    /\ df_filtered' = reset_index(df_filtered)
    /\ pc' = "returned"
    /\ UNCHANGED <<df, profile, cand, mask, ran, allowed_groups>>

\* lines 283-290: "Sorry, no jobs matched your profile."
NoJobsMatched ==
    /\ pc = "returned"
    /\ empty(df_filtered)
    /\ pc' = "no_match"
    /\ UNCHANGED <<df, profile, df_filtered, cand, mask, ran, allowed_groups>>

\* lines 291-303: the matches are shown and rendered
JobsMatched ==
    /\ pc = "returned"
    /\ ~empty(df_filtered)
    /\ pc' = "matched"
    /\ UNCHANGED <<df, profile, df_filtered, cand, mask, ran, allowed_groups>>

Next ==
    \/ Disability
    \/ Subcategory
    \/ Group
    \/ Department
    \/ Activities
    \/ Return
    \/ NoJobsMatched
    \/ JobsMatched

Spec ==
    Init /\ [][Next]_vars

(***************************************************************************)
(* A second specification, for map_group: the same search, run with the    *)
(* qualification drawn from the seven options of the form, a value that is *)
(* none of them, and their upper-case, lower-case and padded spellings.    *)
(***************************************************************************)
QualificationOptions ==
    {Q_10th_Standard, Q_12th_Standard, Q_Certificate, Q_Diploma,
     Q_Graduate, Q_Post_Graduate, Q_Doctorate}

Spellings == {"as_is", "upper", "lower", "padded", "padded_upper"}

Spelled(q, how) ==
    CASE how = "as_is" -> q
      [] how = "upper" -> upper(q)
      [] how = "lower" -> lower(q)
      [] how = "padded" -> <<" ">> \o q \o <<" ", " ">>
      [] how = "padded_upper" -> <<" ">> \o upper(q) \o <<" ">>

QualificationInputs ==
    {Spelled(q, how) : q \in QualificationOptions \cup {v_PhD}, how \in Spellings}

InitQual ==
    /\ df \in {t \in Tables : t.columns = FullColumns /\ Len(t.data) <= 1}
    /\ profile \in {[disability |-> None, subcategory |-> None, qualification |-> q,
                     department |-> None, activities |-> <<>>] :
                        q \in QualificationInputs}
    /\ pc = "disability"
    /\ df_filtered = df
    /\ cand = df
    /\ mask = NoMask
    /\ ran = FALSE
    /\ allowed_groups = <<>>

SpecQual ==
    InitQual /\ [][Next]_vars

(***************************************************************************)
(* Vocabulary of the properties.                                           *)
(***************************************************************************)
Returned ==
    pc \in {"returned", "no_match", "matched"}

\* the rows of a table, cut to the columns of the loaded table
Rows(t) ==
    [r \in 1..Len(t.data) |-> SubSeq(t.data[r], 1, Len(df.columns))]

Labels(t) ==
    {t.index[r] : r \in 1..Len(t.index)}

\* the text of a cell as a reader of the table sees it: nothing for a missing value
CellText(cell) ==
    IF cell = NaN THEN <<>> ELSE cell

ColumnsNamed(t, name) ==
    {c \in 1..Len(t.columns) : t.columns[c] = name}

GroupLabels(letters) ==
    {<<"G", "r", "o", "u", "p", " ", x>> : x \in letters}

ListItems(list) ==
    {list[k] : k \in 1..Len(list)}

\* the groups the mapping rule gives to one of the form's qualification names
GroupsOfOption(q) ==
    IF q \in {Q_Graduate, Q_Post_Graduate, Q_Doctorate} THEN {"A", "B", "C", "D"}
    ELSE IF q = Q_12th_Standard THEN {"C", "D"}
    ELSE {"D"}

(***************************************************************************)
(* C3 (SpecQual).  map_group gives the groups A, B, C and D to Graduate,   *)
(* Post Graduate and Doctorate, the groups C and D to 12th Standard and    *)
(* the group D alone to every other value, in whatever case or padding the *)
(* value is written, and the stage that calls it never raises.             *)
(***************************************************************************)
C3_GroupMapping ==
    /\ pc # "error"
    /\ pc \notin {"disability", "subcategory", "group"} =>
         \A q \in QualificationOptions \cup {v_PhD}, how \in Spellings :
            profile.qualification = Spelled(q, how) =>
               ListItems(allowed_groups) = GroupLabels(GroupsOfOption(q))

C3_Witness ==
    /\ pc = "department"
    /\ profile.qualification = Spelled(Q_12th_Standard, "padded_upper")
    /\ allowed_groups = <<Group_C, Group_D>>

(***************************************************************************)
(* C5.  A record passes the functional-activities criterion exactly when   *)
(* its functional_requirements text, upper-cased and with every character  *)
(* other than A-Z and the space removed, contains the code of at least one *)
(* selected activity (the first word of its label, upper-cased); one code  *)
(* is enough.                                                              *)
(***************************************************************************)
ActivityCode(label) ==
    upper(FirstToken(label))

NormalizedRequirements(text) ==
    SelectSeq(upper(text), LAMBDA ch : ch \in UpperSet \cup {" "})

PassesActivities(t, r) ==
    \E c \in ColumnsNamed(t, kw_functional_requirements) :
        \E a \in ListItems(profile.activities) :
            contains(NormalizedRequirements(CellText(t.data[r][c])), ActivityCode(a))

C5_ActivityOr ==
    (pc = "return" /\ ran) =>
        /\ Len(mask) = Len(cand.data)
        /\ \A r \in 1..Len(cand.data) : mask[r] <=> PassesActivities(cand, r)

\* a record that holds RW but not BN passes for the selection {RW, BN}
C5_Witness ==
    /\ pc = "return"
    /\ ran
    /\ profile.activities = <<RW_Reading_Writing, BN_Bending>>
    /\ \E r \in 1..Len(cand.data) :
          /\ mask[r]
          /\ \E c \in ColumnsNamed(cand, kw_functional_requirements) :
                /\ cand.data[r][c] = v_S_Sitting_RW
                /\ ~contains(NormalizedRequirements(cand.data[r][c]),
                             ActivityCode(BN_Bending))
    /\ \E r \in 1..Len(cand.data) : ~mask[r]

(***************************************************************************)
(* C7.  A record passes the department criterion exactly when its          *)
(* department text contains the profile's department, letter case aside,   *)
(* as a substring: a part of the name is enough.                           *)
(***************************************************************************)
PassesDepartment(t, r) ==
    \E c \in ColumnsNamed(t, kw_department) :
        contains(lower(CellText(t.data[r][c])), lower(profile.department))

C7_DepartmentSubstring ==
    (pc = "activities" /\ ran) =>
        /\ Len(mask) = Len(cand.data)
        /\ \A r \in 1..Len(cand.data) : mask[r] <=> PassesDepartment(cand, r)

C7_Witness ==
    /\ pc = "activities"
    /\ ran
    /\ profile.department = v_education_lc
    /\ \E r \in 1..Len(cand.data) :
          /\ mask[r]
          /\ cand.data[r][column_index(cand, kw_department)] = v_Higher_Education_Department
    /\ \E r \in 1..Len(cand.data) : ~mask[r]

(***************************************************************************)
(* C8.  On a table without rows the search returns a table without rows,   *)
(* whatever the profile, and does not raise.                               *)
(***************************************************************************)
C8_EmptyTable ==
    Len(df.data) = 0 =>
        /\ pc \notin {"error", "matched"}
        /\ Len(df_filtered.data) = 0

C8_Witness ==
    /\ pc = "no_match"
    /\ Len(df.data) = 0
    /\ Len(df_filtered.data) = 0
    /\ Truthy(profile.disability)
    /\ Truthy(profile.subcategory)
    /\ Truthy(profile.qualification)
    /\ Truthy(profile.department)
    /\ Truthy(profile.activities)

(***************************************************************************)
(* C10.  On a table with at least one row, the candidates after each of    *)
(* the five stages are a non-empty subset of the candidates before it, so  *)
(* the result is never empty and "no jobs matched" is reached only for a   *)
(* table without rows.                                                     *)
(***************************************************************************)
C10_CandidatesSurvive ==
    Len(df.data) > 0 =>
        /\ Len(df_filtered.data) > 0
        /\ pc \in {"subcategory", "group", "department", "activities", "return"} =>
              /\ Labels(df_filtered) \subseteq Labels(cand)
              /\ \A r \in 1..Len(df_filtered.data) :
                    \E s \in 1..Len(cand.data) :
                       /\ cand.index[s] = df_filtered.index[r]
                       /\ Rows(cand)[s] = Rows(df_filtered)[r]
        /\ pc # "no_match"

\* a stage whose criterion no candidate passes leaves the candidates as they were
C10_Witness ==
    /\ pc = "return"
    /\ ran
    /\ Len(mask) > 0
    /\ ~any(mask)
    /\ Len(df_filtered.data) = Len(cand.data)
    /\ Len(df_filtered.data) > 0

(***************************************************************************)
(* The criteria as the specification words them.                           *)
(***************************************************************************)
kw_disabilit ==
    <<"d", "i", "s", "a", "b", "i", "l", "i", "t">>

\* some column whose name contains `pattern` holds the disability name
DisabilityInColumns(t, r, pattern) ==
    \E c \in 1..Len(t.columns) :
        /\ contains(lower(t.columns[c]), pattern)
        /\ contains(lower(CellText(t.data[r][c])), lower(profile.disability))

SubcategoryInColumns(t, r) ==
    \E c \in 1..Len(t.columns) :
        /\ contains(lower(t.columns[c]), kw_subcategory)
        /\ contains(lower(CellText(t.data[r][c])), lower(profile.subcategory))

\* the first of A, B, C, D that occurs in the upper-cased text, "" when none does
NormalizedGroupLetter(text) ==
    LET u == upper(text) IN
    IF contains(u, <<"A">>) THEN "A"
    ELSE IF contains(u, <<"B">>) THEN "B"
    ELSE IF contains(u, <<"C">>) THEN "C"
    ELSE IF contains(u, <<"D">>) THEN "D"
    ELSE ""

GroupLetterAllowed(t, r) ==
    \E c \in ColumnsNamed(t, kw_group) :
        NormalizedGroupLetter(CellText(t.data[r][c])) \in GroupsOfOption(profile.qualification)

GroupLabelAllowed(t, r) ==
    \E c \in ColumnsNamed(t, kw_group) :
        strip(CellText(t.data[r][c])) \in GroupLabels(GroupsOfOption(profile.qualification))

RECURSIVE IsSubsequence(_, _)
IsSubsequence(a, b) ==
    IF a = <<>> THEN TRUE
    ELSE IF b = <<>> THEN FALSE
    ELSE IF Head(a) = Head(b) THEN IsSubsequence(Tail(a), Tail(b))
    ELSE IsSubsequence(a, Tail(b))

RECURSIVE Ascending(_)
Ascending(S) ==
    IF S = {} THEN <<>>
    ELSE LET m == CHOOSE x \in S : \A y \in S : x <= y IN <<m>> \o Ascending(S \ {m})

\* the rows of the loaded table at the positions S, in table order
RowsAt(S) ==
    LET p == Ascending(S) IN [k \in 1..Len(p) |-> df.data[p[k]]]

\* the records that satisfy every enabled criterion as the specification words it
SatisfyAllAsSpecified ==
    {r \in 1..Len(df.data) :
        /\ Truthy(profile.disability) => DisabilityInColumns(df, r, kw_disabilit)
        /\ Truthy(profile.subcategory) => SubcategoryInColumns(df, r)
        /\ Truthy(profile.qualification) => GroupLetterAllowed(df, r)
        /\ Truthy(profile.department) => PassesDepartment(df, r)
        /\ Truthy(profile.activities) => PassesActivities(df, r)}

\* the records that satisfy every enabled criterion as filter_jobs tests it
SatisfyAllAsTested(p) ==
    {r \in 1..Len(df.data) :
        /\ Truthy(p.disability) => disability_mask(df, p.disability)[r]
        /\ Truthy(p.subcategory) => subcategory_mask(df, p.subcategory)[r]
        /\ Truthy(p.qualification) =>
              /\ ~KeyError(df, kw_group)
              /\ group_mask(df, map_group(p.qualification))[r]
        /\ Truthy(p.department) =>
              /\ ~KeyError(df, kw_department)
              /\ department_mask(df, p.department)[r]
        /\ Truthy(p.activities) =>
              /\ ~KeyError(df, kw_functional_requirements)
              /\ activity_mask(with_functional_norm(df), p.activities)[r]}

Criteria ==
    {"disability", "subcategory", "qualification", "department", "activities"}

Without(p, k) ==
    [p EXCEPT ![k] = None]

(***************************************************************************)
(* C1, as claimed.  The result of filter_jobs is exactly the records that  *)
(* satisfy every enabled criterion, and is empty when none does.           *)
(***************************************************************************)
C1_StrictAnd ==
    Returned => Rows(df_filtered) = RowsAt(SatisfyAllAsSpecified)

(***************************************************************************)
(* C1, amended.  The result is exactly the records that satisfy every      *)
(* enabled criterion, as filter_jobs tests it, whenever at least one       *)
(* record does; when none does the result holds records of the table that  *)
(* fail an enabled criterion, and it is empty only for an empty table.     *)
(***************************************************************************)
C1_AndWhenSatisfiable ==
    Returned =>
        /\ SatisfyAllAsTested(profile) # {} =>
              Rows(df_filtered) = RowsAt(SatisfyAllAsTested(profile))
        /\ SatisfyAllAsTested(profile) = {} =>
              /\ IsSubsequence(Rows(df_filtered), df.data)
              /\ Len(df.data) > 0 => Len(df_filtered.data) > 0

C1_Witness ==
    /\ pc = "matched"
    /\ Truthy(profile.disability)
    /\ Truthy(profile.qualification)
    /\ Truthy(profile.department)
    /\ Truthy(profile.activities)
    /\ SatisfyAllAsTested(profile) # {}
    /\ Len(df_filtered.data) < Len(df.data)
    /\ Rows(df_filtered) = RowsAt(SatisfyAllAsTested(profile))

(***************************************************************************)
(* C2, as claimed.  Setting one more criterion never adds a record: the    *)
(* result with it is part of the result without it.                        *)
(***************************************************************************)
C2_Monotone ==
    Returned =>
        \A k \in Criteria :
            Truthy(profile[k]) =>
                IsSubsequence(Rows(df_filtered),
                              Rows(filter_jobs(df, Without(profile, k))))

(***************************************************************************)
(* C2, amended.  Whenever at least one record satisfies every enabled      *)
(* criterion of the profile, extra criterion included, the result with the *)
(* extra criterion is part of the result without it.                       *)
(***************************************************************************)
C2_MonotoneWhenSatisfiable ==
    (Returned /\ SatisfyAllAsTested(profile) # {}) =>
        \A k \in Criteria :
            Truthy(profile[k]) =>
                IsSubsequence(Rows(df_filtered),
                              Rows(filter_jobs(df, Without(profile, k))))

C2_Witness ==
    /\ pc = "matched"
    /\ SatisfyAllAsTested(profile) # {}
    /\ Truthy(profile.disability)
    /\ Truthy(profile.department)
    /\ Len(df_filtered.data)
          < Len(filter_jobs(df, Without(profile, "disability")).data)
    /\ IsSubsequence(Rows(df_filtered),
                     Rows(filter_jobs(df, Without(profile, "disability"))))

(***************************************************************************)
(* C4, as claimed.  A record passes the qualification criterion exactly    *)
(* when the first of A, B, C, D found in its upper-cased group text is a   *)
(* group the qualification allows.                                         *)
(***************************************************************************)
C4_NormalizedLetter ==
    (pc = "department" /\ ran) =>
        \A r \in 1..Len(cand.data) : mask[r] <=> GroupLetterAllowed(cand, r)

(***************************************************************************)
(* C4, amended.  A record passes the qualification criterion exactly when  *)
(* its group text, surrounding blanks removed, is "Group A", "Group B",    *)
(* "Group C" or "Group D" for a group the qualification allows; "C (Level  *)
(* 3)", "C", "group d" and a text with no A-D letter never pass.           *)
(***************************************************************************)
C4_ExactLabel ==
    (pc = "department" /\ ran) =>
        /\ Len(mask) = Len(cand.data)
        /\ \A r \in 1..Len(cand.data) :
              /\ mask[r] <=> GroupLabelAllowed(cand, r)
              /\ cand.data[r][column_index(cand, kw_group)]
                    \in {v_C_Level_3, v_C, v_group_d_lc, v_Group} => ~mask[r]

C4_Witness ==
    /\ pc = "department"
    /\ ran
    /\ \E r \in 1..Len(cand.data) :
          /\ cand.data[r][column_index(cand, kw_group)] = v_Group_D_padded
          /\ mask[r]
    /\ \E r \in 1..Len(cand.data) :
          /\ cand.data[r][column_index(cand, kw_group)] = v_group_d_lc
          /\ ~mask[r]

(***************************************************************************)
(* C6, as claimed.  A record passes the disability criterion exactly when  *)
(* some column whose name contains "disabilit" holds the disability name.  *)
(***************************************************************************)
C6_ColumnsNamedDisabilit ==
    (pc = "subcategory" /\ ran) =>
        \A r \in 1..Len(cand.data) :
            mask[r] <=> DisabilityInColumns(cand, r, kw_disabilit)

(***************************************************************************)
(* C6, amended.  A record passes the disability criterion exactly when     *)
(* some column whose name contains "disabilities", letter case aside,      *)
(* holds a value that contains the disability name, letter case aside; a   *)
(* match in any one of several such columns is enough.                     *)
(***************************************************************************)
C6_ColumnsNamedDisabilities ==
    (pc = "subcategory" /\ ran) =>
        /\ Len(mask) = Len(cand.data)
        /\ \A r \in 1..Len(cand.data) :
              mask[r] <=> DisabilityInColumns(cand, r, kw_disabilities)

\* the name is absent from the first disability column and found in the second
C6_Witness ==
    /\ pc = "subcategory"
    /\ ran
    /\ cand.columns = FullColumns
    /\ \E r \in 1..Len(cand.data) :
          /\ mask[r]
          /\ ~contains(lower(CellText(cand.data[r][2])), lower(profile.disability))
          /\ contains(lower(CellText(cand.data[r][3])), lower(profile.disability))
    /\ \E r \in 1..Len(cand.data) : ~mask[r]

(***************************************************************************)
(* C9, as claimed.  Every returned record has exactly the fields and the   *)
(* values of a record of the loaded table.                                 *)
(***************************************************************************)
C9_RecordsUnchanged ==
    Returned =>
        \A r \in 1..Len(df_filtered.data) :
            /\ df_filtered.columns = df.columns
            /\ df_filtered.data[r] \in ListItems(df.data)

=============================================================================
